---- MODULE Spec2Model ----
(***************************************************************************)
(* A model of s3verify's GET-object test cases: the If-Modified-Since      *)
(* runner and its package-level request template (data-types.go), the      *)
(* GetObject and If-None-Match builders, verifiers and test loops          *)
(* (get-object.go, get-object-if-none-match.go) and the indexed result     *)
(* records used by the concurrent fixture batches.                         *)
(***************************************************************************)
EXTENDS Integers, Sequences, FiniteSets, TLC

(* ----------------------------- bounds --------------------------------- *)
\* Largest Last-Modified second the server may report for the fixture object.
MaxDate == 3
\* Longest object body (in bytes) drawn for a fixture object.
MaxBody == 2
\* Largest number of builder calls explored by the builder specification.
MaxCalls == 3

(* --------------------------- vocabulary -------------------------------- *)
Bytes == {1, 2}
\* All byte strings up to n bytes.
BodiesUpTo(n) == UNION {[1..k -> Bytes] : k \in 0..n}
\* The random buffer is never empty: its length is rand.Intn(1<<20)+32*1024.
Bufs == BodiesUpTo(MaxBody) \ {<<>>}

\* An http.TimeFormat date is modelled by its second; "" is NoDate.
NoDate == 0
\* "Thu, 01 Jan 1970 00:00:00 GMT"
pastDate == 1
Dates == (pastDate + 1)..MaxDate

\* A Go error value: nil, or an error of some kind raised in some phase.
Nil == [kind |-> "nil", phase |-> "none"]
Error(k, p) == [kind |-> k, phase |-> p]

VARIABLES
    pc,            \* position in mainGetObjectIfModifiedSince
    bucketExists,  \* the server holds the test bucket
    objectExists,  \* the server holds the test object
    lastModified,  \* the local lastModified ("" until StatObject answered)
    buf,           \* the random data uploaded as the object
    server,        \* how the server answers conditional GETs
    err,           \* the local err of the phase that failed (Nil if none)
    ret,           \* the error the function returned ("running" before)
    req,           \* the request last built (a pointer into reqs, 0 = none)
    res,           \* the response last received
    trace,         \* the calls made so far, in order
    cleanups,      \* per CleanUpGetObject call: what existed when it ran
    reqs,          \* heap of http.Request structs: [hdr, url]
    hdrs,          \* heap of http.Header maps
    GetObjectIfModifiedReq, \* the package-level pointer (index into reqs)
    returned,      \* per successful builder call: the descriptor and its content then
    calls,         \* number of builder calls made
    pool,          \* a fixture batch: its queue, workers, channel and results
    vf,            \* a verifier call: its inputs and what it returned
    tc,            \* a run of mainGetObject / testGetObjectIfNoneMatch
    tr             \* a call of traceV4.Request: the request, the log, the position

imsVars == <<pc, bucketExists, objectExists, lastModified, buf, server, err,
             ret, req, res, trace, cleanups>>
heapVars == <<reqs, hdrs, GetObjectIfModifiedReq, returned, calls>>
\* What the If-Modified-Since runner and the builders leave alone.
rest == <<pool, vf, tc, tr>>
vars == <<imsVars, heapVars, rest>>

\* The parts of the state a specification does not use stay idle.
PoolIdle == [pc |-> "idle"]
VfIdle == [pc |-> "idle"]
TcIdle == [pc |-> "idle"]
TrIdle == [pc |-> "idle"]
RestIdle == pool = PoolIdle /\ vf = VfIdle /\ tc = TcIdle /\ tr = TrIdle

(* --------------------- requests and their maps ------------------------ *)
\* Keys of the header and query maps the builders touch.
HeaderKeys == {"X-Amz-Content-Sha256", "If-Modified-Since", "If-None-Match",
               "User-Agent", "Authorization"}
QueryKeys == {"response-content-type", "response-expires",
              "response-cache-control", "response-content-disposition",
              "response-content-language", "response-content-encoding"}
Keys == HeaderKeys \cup QueryKeys
\* A map value is a tuple; a key that is not in the map reads as Absent.
Absent == <<>>
EmptyMap == [k \in Keys |-> Absent]
\* hex.EncodeToString(signv4.Sum256([]byte{}))
EmptySha == <<"sha256", "empty">>
appUserAgent == <<"ua", "s3verify">>
NoURL == <<>>

\* makeTargetURL: the URL of an object in a bucket.
makeTargetURL(bucketName, objectName) == <<"url", bucketName, objectName>>

\* The package-level template: var GetObjectIfModifiedReq = &http.Request{...}
TemplateHeader == [EmptyMap EXCEPT !["X-Amz-Content-Sha256"] = EmptySha,
                                   !["If-Modified-Since"] = <<"date", NoDate>>]
TemplateReq == [hdr |-> 1, url |-> NoURL]

\* A heap: the request structs, the maps, and the package-level pointer.
Heap(R, H, g) == [reqs |-> R, hdrs |-> H, g |-> g]

\* The signature depends on every signed element of the request.
Signature(url, header) ==
    <<"sig", url, header["If-Modified-Since"], header["X-Amz-Content-Sha256"]>>

\* signv4.SignV4(req http.Request, ...) *http.Request: the request is passed
\* by value, so the struct is copied while its Header map stays shared; the
\* Authorization header is set and a pointer to the copy is returned.
SignV4(heap, p) ==
    LET h == heap.reqs[p].hdr
        auth == Signature(heap.reqs[p].url, heap.hdrs[h])
    IN  Heap(Append(heap.reqs, heap.reqs[p]),
             [heap.hdrs EXCEPT ![h]["Authorization"] = auth],
             Len(heap.reqs) + 1)

\* NewGetObjectIfModifiedSinceReq after makeTargetURL succeeded: the header
\* and URL of the request the package-level pointer names are overwritten,
\* and the pointer is moved to the signed request, which is returned.
NewGetObjectIfModifiedSinceReq(heap, bucketName, objectName, lm) ==
    LET g == heap.g
        h == heap.reqs[g].hdr
        H1 == [heap.hdrs EXCEPT ![h]["If-Modified-Since"] = <<"date", lm>>]
        R1 == [heap.reqs EXCEPT ![g].url = makeTargetURL(bucketName, objectName)]
    IN  SignV4(Heap(R1, H1, g), g)

TheHeap == Heap(reqs, hdrs, GetObjectIfModifiedReq)
\* What a request pointer shows to whoever holds it.
Deref(heap, p) == [hdr |-> heap.hdrs[heap.reqs[p].hdr], url |-> heap.reqs[p].url]

(* ------------- the If-Modified-Since test case (data-types.go) --------- *)
Modes == {"conforming", "flipped"}

\* The server's answer to a conditional GET: a conforming server answers
\* 304 with no body unless the object changed after the date sent, and 200
\* with the object otherwise; a flipped server swaps the two answers.
ServerAnswer(mode, ims, lm, body) ==
    LET notModified == ims >= lm
        send304 == IF mode = "conforming" THEN notModified ELSE ~notModified
    IN  IF send304 THEN [Status |-> "304 Not Modified", Body |-> <<>>]
                   ELSE [Status |-> "200 OK", Body |-> body]

NoResponse == [Status |-> "", Body |-> <<>>, stdOK |-> TRUE, readErr |-> FALSE]

\* verifyStandardHeaders is an input: the response passes it or does not.
VerifyHeaderGetObjectIfModifiedSince(r) ==
    IF r.stdOK THEN Nil ELSE Error("header", "verify")

VerifyBodyGetObjectIfModifiedSince(r, expectedBody) ==
    IF r.readErr THEN Error("read", "verify")
    ELSE IF r.Body # expectedBody THEN Error("body", "verify")
    ELSE Nil

VerifyStatusGetObjectIfModifiedSince(r, expectedStatus) ==
    IF r.Status # expectedStatus THEN Error("status", "verify") ELSE Nil

\* Header first, then the body, then the status.
VerifyGetObjectIfModifiedSince(r, expectedBody, expectedStatus) ==
    IF VerifyHeaderGetObjectIfModifiedSince(r) # Nil
        THEN VerifyHeaderGetObjectIfModifiedSince(r)
    ELSE IF VerifyBodyGetObjectIfModifiedSince(r, expectedBody) # Nil
        THEN VerifyBodyGetObjectIfModifiedSince(r, expectedBody)
    ELSE IF VerifyStatusGetObjectIfModifiedSince(r, expectedStatus) # Nil
        THEN VerifyStatusGetObjectIfModifiedSince(r, expectedStatus)
    ELSE Nil

\* The steps of GetObjectIfModifiedSinceInit that can fail.
SetupSteps == <<"ReadFull", "MakeBucket", "PutObject", "StatObject">>
SetupOutcomes == {SetupSteps[i] : i \in 1..4} \cup {"ok"}

\* Where a failed build, execution or verification continues: every failure
\* branch of mainGetObjectIfModifiedSince calls CleanUpGetObject.
OnErrorSkipsCleanup(site) == IF site = "exec2" THEN "done" ELSE "cleanup"
OnError(site) == "cleanup"

\* if errC := CleanUpGetObject(...); errC != nil { return errC }; return err
ReturnAfterCleanup(e, errC) == IF errC # Nil THEN errC ELSE e

\* The content of a returned descriptor as its holder sees it in a heap.
Content(heap, d) ==
    IF d.p # 0
    THEN [hdr |-> heap.hdrs[heap.reqs[d.p].hdr], query |-> EmptyMap,
          target |-> heap.reqs[d.p].url]
    ELSE [hdr |-> heap.hdrs[d.hdr],
          query |-> IF d.query = 0 THEN EmptyMap ELSE heap.hdrs[d.query],
          target |-> d.target]
\* The record kept of a builder call: what it returned and what that showed.
Returned(heap, d) == [d |-> d, snap |-> Content(heap, d)]
PtrDescriptor(p) == [p |-> p, hdr |-> 0, query |-> 0, target |-> NoURL]

InitHeap ==
    /\ reqs = <<TemplateReq>>
    /\ hdrs = <<TemplateHeader>>
    /\ GetObjectIfModifiedReq = 1
    /\ returned = <<>>
    /\ calls = 0

InitIMS ==
    /\ pc = "setup"
    /\ bucketExists = FALSE
    /\ objectExists = FALSE
    /\ lastModified = NoDate
    /\ buf \in Bufs
    /\ server \in Modes
    /\ err = Nil
    /\ ret = [kind |-> "running", phase |-> "none"]
    /\ req = 0
    /\ res = NoResponse
    /\ trace = <<>>
    /\ cleanups = <<>>
    /\ InitHeap
    /\ RestIdle

\* bucketName, objectName, lastModified, buf, err := GetObjectIfModifiedSinceInit(...)
GetObjectIfModifiedSinceInit ==
    /\ UNCHANGED rest
    /\ pc = "setup"
    /\ \E outcome \in SetupOutcomes, lm \in Dates :
        /\ bucketExists' = (outcome \in {"PutObject", "StatObject", "ok"})
        /\ objectExists' = (outcome \in {"StatObject", "ok"})
        /\ lastModified' = IF outcome = "ok" THEN lm ELSE NoDate
        /\ err' = IF outcome = "ok" THEN Nil ELSE Error(outcome, "setup")
        /\ pc' = IF outcome = "ok" THEN "build1" ELSE "cleanup"
    /\ trace' = Append(trace, "setup")
    /\ UNCHANGED <<buf, server, ret, req, res, cleanups, heapVars>>

\* req, err := NewGetObjectIfModifiedSinceReq(config, bucketName, objectName, date)
BuildStep(site, date, next) ==
    /\ UNCHANGED rest
    /\ pc = site
    /\ trace' = Append(trace, "build")
    /\ calls' = calls + 1
    /\ \/ \* makeTargetURL fails: nothing is touched
          /\ err' = Error("url", "build")
          /\ pc' = OnError(site)
          /\ UNCHANGED <<req, reqs, hdrs, GetObjectIfModifiedReq, returned>>
       \/ LET h == NewGetObjectIfModifiedSinceReq(TheHeap, "bucket", "object", date)
          IN  /\ reqs' = h.reqs
              /\ hdrs' = h.hdrs
              /\ GetObjectIfModifiedReq' = h.g
              /\ req' = h.g
              /\ returned' = Append(returned, Returned(h, PtrDescriptor(h.g)))
              /\ pc' = next
              /\ UNCHANGED err
    /\ UNCHANGED <<bucketExists, objectExists, lastModified, buf, server, ret,
                   res, cleanups>>

\* res, err := ExecRequest(req, config.Client)
ExecStep(site, next) ==
    /\ UNCHANGED rest
    /\ pc = site
    /\ trace' = Append(trace, "exec")
    /\ \/ /\ err' = Error("transport", "exec")
          /\ pc' = OnError(site)
          /\ UNCHANGED res
       \/ \E ok \in BOOLEAN, re \in BOOLEAN :
            LET ims == Deref(TheHeap, req).hdr["If-Modified-Since"][2]
                a == ServerAnswer(server, ims, lastModified, buf)
            IN  /\ res' = [Status |-> a.Status, Body |-> a.Body,
                           stdOK |-> ok, readErr |-> re]
                /\ pc' = next
                /\ UNCHANGED err
    /\ UNCHANGED <<bucketExists, objectExists, lastModified, buf, server, ret,
                   req, cleanups, heapVars>>

\* if err := VerifyGetObjectIfModifiedSince(res, body, status, nil); err != nil
VerifyStep(site, expectedBody, expectedStatus, next) ==
    /\ UNCHANGED rest
    /\ pc = site
    /\ trace' = Append(trace, "verify")
    /\ LET e == VerifyGetObjectIfModifiedSince(res, expectedBody, expectedStatus)
       IN  /\ err' = e
           /\ pc' = IF e # Nil THEN OnError(site) ELSE next
    /\ UNCHANGED <<bucketExists, objectExists, lastModified, buf, server, ret,
                   req, res, cleanups, heapVars>>

Build1 == BuildStep("build1", lastModified, "exec1")
Exec1 == ExecStep("exec1", "verify1")
Verify1 == VerifyStep("verify1", <<>>, "304 Not Modified", "build2")
Build2 == BuildStep("build2", pastDate, "exec2")
Exec2 == ExecStep("exec2", "verify2")
Verify2 == VerifyStep("verify2", buf, "200 OK", "cleanup")

\* CleanUpGetObject(s3Client, bucketName, []string{objectName}) and the
\* return that follows it; whether the removal succeeds is up to the server.
CleanUpGetObject ==
    /\ UNCHANGED rest
    /\ pc = "cleanup"
    /\ trace' = Append(trace, "cleanup")
    /\ \E failed \in BOOLEAN :
        LET errC == IF failed THEN Error("cleanup", "cleanup") ELSE Nil
        IN  /\ ret' = ReturnAfterCleanup(err, errC)
            /\ cleanups' = Append(cleanups, [bucket |-> bucketExists,
                                              object |-> objectExists,
                                              failed |-> failed])
            /\ bucketExists' = (failed /\ bucketExists)
            /\ objectExists' = (failed /\ objectExists)
    /\ pc' = "done"
    /\ UNCHANGED <<lastModified, buf, server, err, req, res, heapVars>>

mainGetObjectIfModifiedSince ==
    \/ GetObjectIfModifiedSinceInit
    \/ Build1 \/ Exec1 \/ Verify1
    \/ Build2 \/ Exec2 \/ Verify2
    \/ CleanUpGetObject

SpecIMS == InitIMS /\ [][mainGetObjectIfModifiedSince]_vars

(* ------------------ claims on the If-Modified-Since runner ------------- *)
Count(seq, x) == Cardinality({i \in 1..Len(seq) : seq[i] = x})
SetupSucceeded == lastModified # NoDate

\* C1: when a build, execution or verification failed and the cleanup call
\* failed as well, the error returned is the earlier failure, not the
\* cleanup's error.
C1_EarlierErrorNotHidden ==
    (/\ pc = "done"
     /\ err.phase \in {"build", "exec", "verify"}
     /\ Len(cleanups) = 1
     /\ cleanups[1].failed)
    => ret = err

\* C2: once setup has succeeded, CleanUpGetObject is called exactly once on
\* every path to the return, and after the last request built, executed or
\* verified: no call follows it and none is made twice.
C2_CleanupOnceAndLast ==
    SetupSucceeded =>
        /\ Count(trace, "cleanup") <= 1
        /\ Count(trace, "cleanup") = 1 => trace[Len(trace)] = "cleanup"
        /\ pc = "done" => Count(trace, "cleanup") = 1

\* The second execution failed and the run has returned.
C2_Witness ==
    /\ pc = "done"
    /\ SetupSucceeded
    /\ err = Error("transport", "exec")
    /\ trace = <<"setup", "build", "exec", "verify", "build", "exec", "cleanup">>

\* C3: when setup fails, no request is built or executed and cleanup is not
\* attempted for a bucket or object that was never created.
C3_FailedSetupSkipsCleanup ==
    err.phase = "setup" =>
        /\ Count(trace, "build") = 0
        /\ Count(trace, "exec") = 0
        /\ \A i \in 1..Len(cleanups) : cleanups[i].bucket /\ cleanups[i].object

\* C8: against a server that answers 200 with the object where 304 with an
\* empty body is expected, the test case fails with the status-code
\* mismatch (the response's headers are in order, its body is readable and
\* cleanup succeeds).
C8_FlippedServerReportsStatus ==
    (/\ pc = "done"
     /\ server = "flipped"
     /\ Count(trace, "verify") = 1
     /\ res.stdOK /\ ~res.readErr
     /\ Len(cleanups) = 1 /\ ~cleanups[1].failed)
    => ret = Error("status", "verify")

(* ------------- the request builders (get-object*.go) ------------------- *)
\* newGetObjectReq after computeHash succeeded: a fresh http.Header and a
\* fresh url.Values are made; the response-override entries are copied into
\* the query values and the two standard headers are set.
newGetObjectReq(heap, bucketName, objectName, responseHeaders) ==
    LET n == Len(heap.hdrs)
        customHeader == [EmptyMap EXCEPT !["User-Agent"] = appUserAgent,
                                         !["X-Amz-Content-Sha256"] = EmptySha]
        urlValues == [k \in Keys |-> IF k \in DOMAIN responseHeaders
                                     THEN responseHeaders[k] ELSE Absent]
    IN  [heap |-> Heap(heap.reqs, heap.hdrs \o <<customHeader, urlValues>>, heap.g),
         d |-> [p |-> 0, hdr |-> n + 1, query |-> n + 2,
                target |-> <<bucketName, objectName>>]]

\* newGetObjectIfNoneMatchReq after computeHash succeeded.
newGetObjectIfNoneMatchReq(heap, bucketName, objectName, ETag) ==
    LET n == Len(heap.hdrs)
        customHeader == [EmptyMap EXCEPT !["If-None-Match"] = <<"etag", ETag>>,
                                         !["User-Agent"] = appUserAgent,
                                         !["X-Amz-Content-Sha256"] = EmptySha]
    IN  [heap |-> Heap(heap.reqs, Append(heap.hdrs, customHeader), heap.g),
         d |-> [p |-> 0, hdr |-> n + 1, query |-> 0,
                target |-> <<bucketName, objectName>>]]

\* invalidETag := "1234567890"; ETags are modelled by numbers.
invalidETag == 1234567890

\* Arguments the builders are called with.
ObjectNames == {"o1", "o2"}
ETags == {1, invalidETag}
ResponseHeaderSets ==
    { <<>>,
      [k \in {"response-content-type"} |-> <<"v", "image/gif">>],
      [k \in {"response-content-type", "response-cache-control"} |->
          IF k = "response-content-type" THEN <<"v", "image/gif">>
                                         ELSE <<"v", "no-cache">>] }

InitBuild ==
    /\ pc = "builders"
    /\ bucketExists = FALSE
    /\ objectExists = FALSE
    /\ lastModified = NoDate
    /\ buf = <<1>>
    /\ server = "conforming"
    /\ err = Nil
    /\ ret = [kind |-> "running", phase |-> "none"]
    /\ req = 0
    /\ res = NoResponse
    /\ trace = <<>>
    /\ cleanups = <<>>
    /\ InitHeap
    /\ RestIdle

\* A builder call that fails (makeTargetURL or computeHash) returns no request.
BuilderFails ==
    /\ UNCHANGED rest
    /\ calls < MaxCalls
    /\ calls' = calls + 1
    /\ err' = Error("build", "build")
    /\ UNCHANGED <<pc, bucketExists, objectExists, lastModified, buf, server,
                   ret, req, res, trace, cleanups, reqs, hdrs,
                   GetObjectIfModifiedReq, returned>>

Install(h, d) ==
    /\ UNCHANGED rest
    /\ calls < MaxCalls
    /\ calls' = calls + 1
    /\ reqs' = h.reqs
    /\ hdrs' = h.hdrs
    /\ GetObjectIfModifiedReq' = h.g
    /\ returned' = Append(returned, Returned(h, d))
    /\ err' = Nil
    /\ UNCHANGED <<pc, bucketExists, objectExists, lastModified, buf, server,
                   ret, req, res, trace, cleanups>>

CallNewGetObjectIfModifiedSinceReq ==
    \E o \in ObjectNames, lm \in {pastDate} \cup Dates :
        LET h == NewGetObjectIfModifiedSinceReq(TheHeap, "bucket", o, lm)
        IN  Install(h, PtrDescriptor(h.g))

CallNewGetObjectReq ==
    \E o \in ObjectNames, rh \in ResponseHeaderSets :
        LET r == newGetObjectReq(TheHeap, "bucket", o, rh)
        IN  Install(r.heap, r.d)

CallNewGetObjectIfNoneMatchReq ==
    \E o \in ObjectNames, e \in ETags :
        LET r == newGetObjectIfNoneMatchReq(TheHeap, "bucket", o, e)
        IN  Install(r.heap, r.d)

NextBuild ==
    \/ CallNewGetObjectIfModifiedSinceReq
    \/ CallNewGetObjectReq
    \/ CallNewGetObjectIfNoneMatchReq
    \/ BuilderFails

SpecBuild == InitBuild /\ [][NextBuild]_vars

\* C9: a request returned by a builder is built fresh: whatever builder is
\* called afterwards, the headers, query, URL and signature of a request
\* returned earlier stay what they were when it was returned.
C9_ReturnedRequestsNeverChange ==
    \A i \in 1..Len(returned) :
        Content(TheHeap, returned[i].d) = returned[i].snap

(* ---------------- fixture batches (indexed result records) ------------- *)
\* Largest fixture batch explored.
MaxN == 3

\* type objectInfoChannel struct { objInfo ObjectInfo; err error; index int }
\* (partChannel and multiUploadInitChannel have the same three-part shape).
objectInfoChannelUntagged(objInfo, e, index) ==
    [objInfo |-> objInfo, err |-> e, index |-> 1]
objectInfoChannel(objInfo, e, index) ==
    [objInfo |-> objInfo, err |-> e, index |-> index]

\* The unit operation of input i and what it yields.
Input(i) == <<"object", i>>
NoPayload == <<>>
UnitOutcome(i, fails) ==
    IF i \in fails THEN [objInfo |-> NoPayload, err |-> Error("unit", "fixture")]
                   ELSE [objInfo |-> <<"etag", Input(i)>>, err |-> Nil]

\* The fan-in barrier: the orchestrator returns when all N results have
\* arrived, whether or not some of them are errors.
AllArrivedOrFailed(p) ==
    \/ Len(p.arrival) = p.N
    \/ \E i \in 1..p.N : p.slots[i].err # Nil
AllArrived(p) == Len(p.arrival) = p.N

EmptySlot == [objInfo |-> NoPayload, err |-> Nil, index |-> 0]

InitPool ==
    /\ \E n \in 1..MaxN, k \in 1..MaxN, fails \in SUBSET (1..MaxN) :
        /\ k <= n
        /\ fails \subseteq 1..n
        /\ pool = [pc |-> "running", N |-> n, size |-> k, fails |-> fails,
                   queue |-> [i \in 1..n |-> i],
                   worker |-> [w \in 1..k |-> [st |-> "idle", index |-> 0]],
                   channel |-> {},
                   slots |-> [i \in 1..n |-> EmptySlot],
                   arrival |-> <<>>,
                   ran |-> [i \in 1..n |-> <<>>],
                   results |-> <<>>]
    /\ pc = "pool"
    /\ bucketExists = FALSE
    /\ objectExists = FALSE
    /\ lastModified = NoDate
    /\ buf = <<1>>
    /\ server = "conforming"
    /\ err = Nil
    /\ ret = [kind |-> "running", phase |-> "none"]
    /\ req = 0
    /\ res = NoResponse
    /\ trace = <<>>
    /\ cleanups = <<>>
    /\ InitHeap
    /\ vf = VfIdle
    /\ tc = TcIdle
    /\ tr = TrIdle

\* An idle worker pulls the next indexed work item from the shared queue.
WorkerTake(w) ==
    /\ pool.pc = "running"
    /\ pool.worker[w].st = "idle"
    /\ pool.queue # <<>>
    /\ pool' = [pool EXCEPT !.queue = Tail(@),
                            !.worker[w] = [st |-> "busy", index |-> Head(pool.queue)]]
    /\ UNCHANGED <<imsVars, heapVars, vf, tc, tr>>

\* A worker runs its unit operation and writes the outcome, tagged with the
\* index of its input, to the shared collection point.
WorkerRun(w) ==
    /\ pool.pc = "running"
    /\ pool.worker[w].st = "busy"
    /\ LET i == pool.worker[w].index
           o == UnitOutcome(i, pool.fails)
       IN  pool' = [pool EXCEPT
                !.channel = @ \cup {objectInfoChannel(o.objInfo, o.err, i)},
                !.ran[i] = Append(@, w),
                !.worker[w] = [st |-> "idle", index |-> 0]]
    /\ UNCHANGED <<imsVars, heapVars, vf, tc, tr>>

\* The orchestrator takes one result, whichever has arrived, and files it
\* under the index it carries.
Collect ==
    /\ pool.pc = "running"
    /\ Len(pool.arrival) < pool.N
    /\ \E m \in pool.channel :
        pool' = [pool EXCEPT !.channel = @ \ {m},
                             !.slots[m.index] = m,
                             !.arrival = Append(@, m.index)]
    /\ UNCHANGED <<imsVars, heapVars, vf, tc, tr>>

\* All N results have arrived: the list is returned in input order.
ReturnResults ==
    /\ pool.pc = "running"
    /\ AllArrived(pool)
    /\ pool' = [pool EXCEPT !.pc = "returned",
                            !.results = [i \in 1..pool.N |-> pool.slots[i]]]
    /\ UNCHANGED <<imsVars, heapVars, vf, tc, tr>>

NextPool ==
    \/ \E w \in 1..MaxN : w <= pool.size /\ WorkerTake(w)
    \/ \E w \in 1..MaxN : w <= pool.size /\ WorkerRun(w)
    \/ Collect
    \/ ReturnResults

SpecPool == InitPool /\ [][NextPool]_vars

\* C4: the list returned has exactly N entries and entry i is the outcome
\* (payload or error) of input i, for every pool size from 1 to N and every
\* order in which the workers complete.
C4_ResultsInInputOrder ==
    pool.pc = "returned" =>
        /\ Len(pool.results) = pool.N
        /\ \A i \in 1..pool.N :
            /\ pool.results[i].index = i
            /\ pool.results[i].objInfo = UnitOutcome(i, pool.fails).objInfo
            /\ pool.results[i].err = UnitOutcome(i, pool.fails).err

\* A batch of three on two workers whose results arrived out of input order.
C4_Witness ==
    /\ pool.pc = "returned"
    /\ pool.N = 3 /\ pool.size = 2
    /\ pool.arrival = <<2, 3, 1>>

\* C5: a failing unit cancels nothing: every input is processed exactly
\* once, by one worker, and the orchestrator returns only after all N
\* results have arrived, with N results.
C5_NoCancellation ==
    /\ \A i \in 1..pool.N : Len(pool.ran[i]) <= 1
    /\ pool.pc = "returned" =>
        /\ \A i \in 1..pool.N : Len(pool.ran[i]) = 1
        /\ {pool.arrival[j] : j \in 1..Len(pool.arrival)} = 1..pool.N
        /\ Len(pool.arrival) = pool.N
        /\ Len(pool.results) = pool.N
        /\ pool.channel = {}

\* A batch of three on one worker whose first unit failed has returned.
C5_Witness ==
    /\ pool.pc = "returned"
    /\ pool.N = 3 /\ pool.size = 1
    /\ pool.fails = {1}
    /\ pool.results[1].err # Nil
    /\ pool.results[3].err = Nil

(* --------------- the verifiers (get-object*.go) ------------------------ *)
\* var overWrittenHeaders = map[string]string{...}
overWrittenHeaders ==
    [k \in {"response-content-type", "response-content-language",
            "response-expires", "response-cache-control",
            "response-content-disposition", "response-content-encoding"} |->
        CASE k = "response-content-type" -> "Content-Type"
          [] k = "response-content-language" -> "Content-Language"
          [] k = "response-expires" -> "Expires"
          [] k = "response-cache-control" -> "Cache-Control"
          [] k = "response-content-disposition" -> "Content-Disposition"
          [] k = "response-content-encoding" -> "Content-Encoding"]

\* overWrittenHeaders[k]: a Go map yields "" for a key it does not hold.
Lookup(k) == IF k \in DOMAIN overWrittenHeaders THEN overWrittenHeaders[k] ELSE ""

\* http.Header.Get: the first value filed under the key, "" if there is none.
Get(header, key) ==
    IF key \in DOMAIN header /\ header[key] # <<>> THEN header[key][1] ELSE ""

\* A verifier's verdict: nil, or the mismatch found (and the header it names).
Pass == [kind |-> "nil", key |-> ""]
Mismatch(kind, key) == [kind |-> kind, key |-> key]

\* verifyHeaderGetObject: the standard headers, then every expected entry in
\* the map's iteration order, which Go leaves open: the set of the values it
\* may return.
verifyHeaderGetObject(stdOK, header, expectedHeaders) ==
    LET bad == {k \in DOMAIN expectedHeaders :
                    Get(header, Lookup(k)) # expectedHeaders[k]}
    IN  IF ~stdOK THEN {Mismatch("standard-header", "")}
        ELSE IF bad = {} THEN {Pass}
        ELSE {Mismatch("header", k) : k \in bad}

\* verifyHeaderGetObjectIfNoneMatch: the standard headers only.
verifyHeaderGetObjectIfNoneMatch(stdOK) ==
    IF stdOK THEN {Pass} ELSE {Mismatch("standard-header", "")}

\* verifyStatusGetObject / verifyStatusGetObjectIfNoneMatch
verifyStatusGetObject(respStatusCode, expectedStatusCode) ==
    IF respStatusCode # expectedStatusCode THEN Mismatch("status", "") ELSE Pass

\* verifyBodyGetObject / verifyBodyGetObjectIfNoneMatch: ioutil.ReadAll, then
\* bytes.Equal.
verifyBodyGetObject(body, readErr, expectedBody) ==
    IF readErr THEN Mismatch("read", "")
    ELSE IF body # expectedBody THEN Mismatch("body", "")
    ELSE Pass

\* The three checks in the order header, status, body; each later check
\* runs only if the earlier ones passed. The outcomes are pairs of the
\* value returned and whether the body was read.
Outcome(e, read) == [err |-> e, bodyRead |-> read]
ChecksBodyBeforeStatus(headerResults, r, expectedBody, expectedStatusCode) ==
    LET b == verifyBodyGetObject(r.Body, r.readErr, expectedBody)
        st == verifyStatusGetObject(r.StatusCode, expectedStatusCode)
    IN  IF headerResults # {Pass}
            THEN {Outcome(e, FALSE) : e \in headerResults}
        ELSE IF b # Pass THEN {Outcome(b, TRUE)}
        ELSE {Outcome(st, TRUE)}
Checks(headerResults, r, expectedBody, expectedStatusCode) ==
    LET st == verifyStatusGetObject(r.StatusCode, expectedStatusCode)
    IN  IF headerResults # {Pass}
            THEN {Outcome(e, FALSE) : e \in headerResults}
        ELSE IF st # Pass THEN {Outcome(st, FALSE)}
        ELSE {Outcome(verifyBodyGetObject(r.Body, r.readErr, expectedBody), TRUE)}

getObjectVerify(r, expectedBody, expectedStatusCode, expectedHeader) ==
    Checks(verifyHeaderGetObject(r.stdOK, r.Header, expectedHeader),
           r, expectedBody, expectedStatusCode)

getObjectIfNoneMatchVerify(r, objectBody, expectedStatusCode) ==
    Checks(verifyHeaderGetObjectIfNoneMatch(r.stdOK),
           r, objectBody, expectedStatusCode)

\* Responses and expectations the verifiers are tried on.
RespKeys == {"Content-Type", "Cache-Control"}
RespValues == {<<>>, <<"">>, <<"image/gif">>, <<"text/plain">>}
ExpKeys == {"response-content-type", "response-cache-control", "response-unknown"}
ExpValues == {"", "image/gif"}
ExpectedHeaderMaps == UNION {[D -> ExpValues] : D \in SUBSET ExpKeys}
StatusCodes == {200, 304}
VerifyBodies == {<<>>, <<1>>, <<1, 2>>}
Responses ==
    [stdOK : BOOLEAN, Header : [RespKeys -> RespValues],
     StatusCode : StatusCodes, Body : VerifyBodies, readErr : BOOLEAN]

InitVerify ==
    /\ \E r \in Responses, eh \in ExpectedHeaderMaps,
          eb \in {<<>>, <<1>>}, es \in StatusCodes :
        vf = [pc |-> "ready", res |-> r, expectedHeader |-> eh,
              expectedBody |-> eb, expectedStatusCode |-> es,
              fn |-> "", result |-> Pass, bodyRead |-> FALSE]
    /\ pc = "verifiers"
    /\ bucketExists = FALSE
    /\ objectExists = FALSE
    /\ lastModified = NoDate
    /\ buf = <<1>>
    /\ server = "conforming"
    /\ err = Nil
    /\ ret = [kind |-> "running", phase |-> "none"]
    /\ req = 0
    /\ res = NoResponse
    /\ trace = <<>>
    /\ cleanups = <<>>
    /\ InitHeap
    /\ pool = PoolIdle
    /\ tc = TcIdle
    /\ tr = TrIdle

Returns(fn, outcomes) ==
    /\ vf.pc = "ready"
    /\ \E o \in outcomes :
        vf' = [vf EXCEPT !.pc = "done", !.fn = fn,
                         !.result = o.err, !.bodyRead = o.bodyRead]
    /\ UNCHANGED <<imsVars, heapVars, pool, tc, tr>>

CallGetObjectVerify ==
    Returns("getObjectVerify",
            getObjectVerify(vf.res, vf.expectedBody, vf.expectedStatusCode,
                            vf.expectedHeader))

CallGetObjectIfNoneMatchVerify ==
    Returns("getObjectIfNoneMatchVerify",
            getObjectIfNoneMatchVerify(vf.res, vf.expectedBody,
                                       vf.expectedStatusCode))

CallVerifyHeaderGetObject ==
    Returns("verifyHeaderGetObject",
            {Outcome(e, FALSE) :
                e \in verifyHeaderGetObject(vf.res.stdOK, vf.res.Header,
                                            vf.expectedHeader)})

NextVerify ==
    \/ CallGetObjectVerify
    \/ CallGetObjectIfNoneMatchVerify
    \/ CallVerifyHeaderGetObject

SpecVerify == InitVerify /\ [][NextVerify]_vars

\* The three checks, each on its own.
HeaderCheckPasses ==
    /\ vf.res.stdOK
    /\ vf.fn = "getObjectVerify" =>
        \A k \in DOMAIN vf.expectedHeader :
            Get(vf.res.Header, Lookup(k)) = vf.expectedHeader[k]
StatusCheckPasses == vf.res.StatusCode = vf.expectedStatusCode
BodyCheckPasses == ~vf.res.readErr /\ vf.res.Body = vf.expectedBody

\* C6: getObjectVerify and getObjectIfNoneMatchVerify succeed exactly when
\* the header, status and body checks all pass; otherwise they return the
\* error of the first failing check in the order header, status, body, and
\* the body is read only when header and status passed.
C6_FirstFailingCheck ==
    (vf.pc = "done" /\ vf.fn \in {"getObjectVerify", "getObjectIfNoneMatchVerify"}) =>
        /\ vf.result = Pass <=>
              (HeaderCheckPasses /\ StatusCheckPasses /\ BodyCheckPasses)
        /\ ~HeaderCheckPasses =>
              vf.result.kind \in {"standard-header", "header"} /\ ~vf.bodyRead
        /\ (HeaderCheckPasses /\ ~StatusCheckPasses) =>
              vf.result.kind = "status" /\ ~vf.bodyRead
        /\ (HeaderCheckPasses /\ StatusCheckPasses /\ ~BodyCheckPasses) =>
              vf.result.kind \in {"read", "body"} /\ vf.bodyRead
        /\ (HeaderCheckPasses /\ StatusCheckPasses) => vf.bodyRead

\* Status and body are both wrong: the status mismatch is the one returned.
C6_Witness ==
    /\ vf.pc = "done"
    /\ vf.fn = "getObjectVerify"
    /\ "response-content-type" \in DOMAIN vf.expectedHeader
    /\ vf.expectedHeader["response-content-type"] = "image/gif"
    /\ HeaderCheckPasses /\ ~StatusCheckPasses /\ ~BodyCheckPasses
    /\ vf.result = Mismatch("status", "")

\* C7: verifyHeaderGetObject passes only if, for every expected entry
\* (k, v), the response carries the header overWrittenHeaders maps k to and
\* carries it with the value v; this for every k and v, an empty v and a k
\* outside the table included.
C7_EveryExpectedHeaderPresent ==
    (vf.pc = "done" /\ vf.fn = "verifyHeaderGetObject" /\ vf.result = Pass) =>
        \A k \in DOMAIN vf.expectedHeader :
            /\ k \in DOMAIN overWrittenHeaders
            /\ overWrittenHeaders[k] \in DOMAIN vf.res.Header
            /\ vf.res.Header[overWrittenHeaders[k]] # <<>>
            /\ vf.res.Header[overWrittenHeaders[k]][1] = vf.expectedHeader[k]

(* ------ the test cases mainGetObject and testGetObjectIfNoneMatch ------ *)
\* Longest list of fixture objects (s3verifyObjects / testObjects).
MaxObjects == 2

\* The fixture objects: object i has key i, ETag i and a one-byte body.
FixtureObjects(n) ==
    [i \in 1..n |-> [Key |-> i, ETag |-> i, Body |-> <<((i - 1) % 2) + 1>>]]

\* expectedHeaders of mainGetObject
expectedHeaders ==
    [k \in {"response-content-type", "response-expires",
            "response-cache-control", "response-content-disposition"} |->
        CASE k = "response-content-type" -> "image/gif"
          [] k = "response-expires" -> "Thu, 01 Dec 1994 16:00:00 GMT"
          [] k = "response-cache-control" -> "no-cache"
          [] k = "response-content-disposition" -> "attachment; filename=\"s3verify.txt\""]

\* The headers of a response that echoes every override, and of one that
\* leaves out Content-Type.
EchoedHeader ==
    [h \in {"Content-Type", "Expires", "Cache-Control", "Content-Disposition"} |->
        CASE h = "Content-Type" -> <<"image/gif">>
          [] h = "Expires" -> <<"Thu, 01 Dec 1994 16:00:00 GMT">>
          [] h = "Cache-Control" -> <<"no-cache">>
          [] h = "Content-Disposition" -> <<"attachment; filename=\"s3verify.txt\"">>]
EchoedHeaderNoType == [EchoedHeader EXCEPT !["Content-Type"] = <<>>]

\* What the server may answer to a GET of an object.
TcResponses(object) ==
    [stdOK : BOOLEAN, Header : {EchoedHeader, EchoedHeaderNoType},
     StatusCode : StatusCodes, Body : {<<>>, object.Body}, readErr : BOOLEAN]

\* The two ways a test case leaves: `printMessage(message, err); return false`
\* on a failure and `printMessage(message, nil); return true` at the end.
FailBranchSilent(e) == [report |-> Pass, value |-> "false"]
FailBranch(e) == [report |-> e, value |-> "false"]
PassBranch == [report |-> Pass, value |-> "true"]

TestFunctions == {"mainGetObject", "testGetObjectIfNoneMatch"}
NoDescriptor == [p |-> 0, hdr |-> 0, query |-> 0, target |-> NoURL]
NoTcResponse == [stdOK |-> TRUE, Header |-> EchoedHeader, StatusCode |-> 0,
                 Body |-> <<>>, readErr |-> FALSE]
\* Deferred calls run last in, first out.
NotReversed(seq) == seq
Reverse(seq) == [i \in 1..Len(seq) |-> seq[Len(seq) + 1 - i]]

InitTest ==
    /\ \E f \in TestFunctions, n \in 0..MaxObjects :
        tc = [fn |-> f, objects |-> FixtureObjects(n), i |-> 0, n |-> 1,
              pc |-> "loop", req |-> NoDescriptor, res |-> NoTcResponse,
              deferred |-> <<>>, closed |-> <<>>, sent |-> <<>>,
              reports |-> <<>>, log |-> <<>>, err |-> Pass,
              exit |-> PassBranch, result |-> "running"]
    /\ pc = "testcase"
    /\ bucketExists = FALSE
    /\ objectExists = FALSE
    /\ lastModified = NoDate
    /\ buf = <<1>>
    /\ server = "conforming"
    /\ err = Nil
    /\ ret = [kind |-> "running", phase |-> "none"]
    /\ req = 0
    /\ res = NoResponse
    /\ trace = <<>>
    /\ cleanups = <<>>
    /\ InitHeap
    /\ pool = PoolIdle
    /\ vf = VfIdle
    /\ tr = TrIdle

\* The ETag sent for an object: its own in the first request (304 and an
\* empty body are expected), invalidETag in the second (200 and the body).
ETagForSwapped(object, n) == IF n = 1 THEN invalidETag ELSE object.ETag
ETagFor(object, n) == IF n = 1 THEN object.ETag ELSE invalidETag

\* A failed step takes the failure branch: the error is to be printed.
Failed(step, e) ==
    [tc EXCEPT !.pc = "print", !.err = e, !.exit = FailBranch(e),
               !.log = Append(@, step)]

\* for _, object := range objects: the next object, or the end of the loop.
LoopNext ==
    /\ tc.pc = "loop"
    /\ tc' = IF tc.i < Len(tc.objects)
             THEN [tc EXCEPT !.i = @ + 1, !.n = 1, !.pc = "build"]
             ELSE [tc EXCEPT !.pc = "print", !.exit = PassBranch]
    /\ UNCHANGED <<imsVars, heapVars, pool, vf, tr>>

\* req, err := newGetObjectReq(...) / newGetObjectIfNoneMatchReq(...)
BuildReq ==
    /\ tc.pc = "build"
    /\ \/ /\ tc' = Failed("build", Mismatch("computeHash", ""))
          /\ UNCHANGED hdrs
       \/ LET object == tc.objects[tc.i]
              r == IF tc.fn = "mainGetObject"
                   THEN newGetObjectReq(TheHeap, "bucket", object.Key, expectedHeaders)
                   ELSE newGetObjectIfNoneMatchReq(TheHeap, "bucket", object.Key,
                            ETagFor(object, tc.n))
          IN  /\ hdrs' = r.heap.hdrs
              /\ tc' = [tc EXCEPT !.pc = "exec", !.req = r.d,
                                  !.log = Append(@, "build")]
    /\ UNCHANGED <<imsVars, reqs, GetObjectIfModifiedReq, returned, calls,
                   pool, vf, tr>>

\* res, err := config.execRequest("GET", req); defer closeResponse(res)
ExecReq ==
    /\ tc.pc = "exec"
    /\ \/ tc' = Failed("exec", Mismatch("transport", ""))
       \/ \E r \in TcResponses(tc.objects[tc.i]) :
            tc' = [tc EXCEPT !.pc = "verify", !.res = r,
                             !.sent = Append(@, Content(TheHeap, tc.req)),
                             !.deferred = Append(@, Len(tc.sent) + 1),
                             !.log = Append(@, "exec")]
    /\ UNCHANGED <<imsVars, heapVars, pool, vf, tr>>

\* getObjectVerify(res, object.Body, 200, expectedHeaders), or
\* getObjectIfNoneMatchVerify(res, "", 304) and then (badRes, object.Body, 200)
VerifyRes ==
    /\ tc.pc = "verify"
    /\ LET object == tc.objects[tc.i]
           outcomes ==
               IF tc.fn = "mainGetObject"
               THEN getObjectVerify(tc.res, object.Body, 200, expectedHeaders)
               ELSE IF tc.n = 1
               THEN getObjectIfNoneMatchVerify(tc.res, <<>>, 304)
               ELSE getObjectIfNoneMatchVerify(tc.res, object.Body, 200)
       IN  \E o \in outcomes :
            tc' = IF o.err # Pass THEN Failed("verify", o.err)
                  ELSE IF tc.fn = "testGetObjectIfNoneMatch" /\ tc.n = 1
                  THEN [tc EXCEPT !.pc = "build", !.n = 2,
                                  !.log = Append(@, "verify")]
                  ELSE [tc EXCEPT !.pc = "loop", !.log = Append(@, "verify")]
    /\ UNCHANGED <<imsVars, heapVars, pool, vf, tr>>

\* printMessage(message, err)
PrintMessage ==
    /\ tc.pc = "print"
    /\ tc' = [tc EXCEPT !.pc = "return",
                        !.reports = Append(@, tc.exit.report),
                        !.log = Append(@, "print")]
    /\ UNCHANGED <<imsVars, heapVars, pool, vf, tr>>

\* return: the deferred closeResponse calls run, last deferred first, and
\* the caller gets the boolean.
Return ==
    /\ tc.pc = "return"
    /\ tc' = [tc EXCEPT !.pc = "done",
                        !.closed = Reverse(tc.deferred),
                        !.deferred = <<>>,
                        !.result = tc.exit.value]
    /\ UNCHANGED <<imsVars, heapVars, pool, vf, tr>>

NextTest ==
    \/ LoopNext
    \/ BuildReq
    \/ ExecReq
    \/ VerifyRes
    \/ PrintMessage
    \/ Return

SpecTest == InitTest /\ [][NextTest]_vars

\* C10: a test case reports to printMessage exactly once, after its last
\* build, execution or verification and right before it returns; the report
\* carries no error exactly when true is returned and the failing step's
\* error when false is returned; a failure ends in a return, not an abort.
C10_ReportsOnceThenReturns ==
    /\ Len(tc.reports) <= 1
    /\ Len(tc.reports) = 1 =>
        /\ tc.pc \in {"return", "done"}
        /\ tc.log[Len(tc.log)] = "print"
    /\ tc.pc = "done" =>
        /\ Len(tc.reports) = 1
        /\ tc.result \in {"true", "false"}
        /\ tc.result = "true" <=> tc.reports[1] = Pass
        /\ tc.result = "true" <=> tc.err = Pass
        /\ tc.result = "false" => tc.reports[1] = tc.err

\* The If-None-Match test failed verifying its second object and returned.
C10_Witness ==
    /\ tc.pc = "done"
    /\ tc.fn = "testGetObjectIfNoneMatch"
    /\ tc.i = 2
    /\ tc.result = "false"
    /\ tc.reports = <<Mismatch("status", "")>>

\* C12: testGetObjectIfNoneMatch takes the objects in list order and sends,
\* for each, first the request with the object's own ETag and then the one
\* with the invalid ETag; it returns true exactly when every build,
\* execution and verification of every object succeeded (for an empty list
\* too, with nothing sent), and once a step has failed no request is sent.
C12_SentInOrder ==
    tc.fn = "testGetObjectIfNoneMatch" =>
        /\ \A k \in 1..Len(tc.sent) :
            LET object == tc.objects[(k + 1) \div 2]
            IN  /\ (k + 1) \div 2 <= tc.i
                /\ tc.sent[k].target = <<"bucket", object.Key>>
                /\ tc.sent[k].hdr["If-None-Match"] =
                      <<"etag", IF k % 2 = 1 THEN object.ETag ELSE invalidETag>>
        /\ tc.err # Pass => tc.pc \in {"print", "return", "done"}
        /\ tc.pc = "done" =>
            /\ tc.result = "true" <=>
                  /\ Count(tc.log, "build") = 2 * Len(tc.objects)
                  /\ Count(tc.log, "exec") = 2 * Len(tc.objects)
                  /\ Count(tc.log, "verify") = 2 * Len(tc.objects)
                  /\ tc.err = Pass
            /\ tc.result = "true" => Len(tc.sent) = 2 * Len(tc.objects)
            /\ tc.result = "false" => tc.err # Pass

C12_NothingSentAfterFailure ==
    [][(tc.fn = "testGetObjectIfNoneMatch" /\ tc.err # Pass)
            => tc'.sent = tc.sent]_vars

C12_OrderAndOutcome == []C12_SentInOrder /\ C12_NothingSentAfterFailure

\* Both objects passed both requests and the test returned true.
C12_Witness ==
    /\ tc.fn = "testGetObjectIfNoneMatch"
    /\ tc.pc = "done"
    /\ Len(tc.objects) = 2
    /\ Len(tc.sent) = 4
    /\ tc.result = "true"

\* C14: every response execRequest returned is closed exactly once on every
\* return path, none before the function returns, and then in reverse order
\* of acquisition.
C14_ClosedOnceAtReturn ==
    /\ tc.pc # "done" =>
        /\ tc.closed = <<>>
        /\ tc.deferred = [k \in 1..Len(tc.sent) |-> k]
    /\ tc.pc = "done" =>
        /\ Len(tc.closed) = Len(tc.sent)
        /\ \A k \in 1..Len(tc.closed) : tc.closed[k] = Len(tc.sent) + 1 - k

\* Three responses were open when a verification failed; all were closed.
C14_Witness ==
    /\ tc.pc = "done"
    /\ tc.result = "false"
    /\ tc.err.kind \in {"status", "body"}
    /\ tc.closed = <<3, 2, 1>>

(* ------------- the trace observer (cmd/client-s3-trace.go) ------------- *)
\* Longest access key and longest signature drawn, in characters.
MaxKeyLen == 2
MaxSigLen == 2

\* A string is a sequence of tokens: single characters where the regular
\* expressions look at characters, whole literals elsewhere.
UpperCase == {"A", "B", "C", "D", "E", "F", "G", "H", "I", "J", "K", "L", "M",
              "N", "O", "P", "Q", "R", "S", "T", "U", "V", "W", "X", "Y", "Z"}
Digits == {"0", "1", "2", "3", "4", "5", "6", "7", "8", "9"}
\* [A-Z0-9] of regCred and [0-9a-f] of regSign
CredClass == UpperCase \cup Digits
SignClass == Digits \cup {"a", "b", "c", "d", "e", "f"}

\* Characters access keys and hex signatures are drawn from.
KeyChars == {"A", "7", "k"}
SigChars == {"0", "f"}
StringsOver(chars, n) == UNION {[1..k -> chars] : k \in 1..n}
AccessKeys == StringsOver(KeyChars, MaxKeyLen)
Signatures == StringsOver(SigChars, MaxSigLen)

\* AWS4-HMAC-SHA256 Credential=<key>/<scope>, SignedHeaders=<list>, Signature=<hex>
Authorization(key, sig) ==
    <<"AWS4-HMAC-SHA256 ", "Credential=">> \o key
        \o <<"/", "20150524/us-east-1/s3/aws4_request",
             ", SignedHeaders=host;x-amz-content-sha256;x-amz-date, ",
             "Signature=">> \o sig

\* The length of the longest prefix of s made of characters of the class.
RECURSIVE RunLen(_, _)
RunLen(s, class) ==
    IF s # <<>> /\ Head(s) \in class THEN 1 + RunLen(Tail(s), class) ELSE 0

\* regCred.ReplaceAllString(s, "Credential=**REDACTED**/") with
\* regCred = "Credential=([A-Z0-9]+)/"
RECURSIVE ReplaceCred(_)
ReplaceCred(s) ==
    IF s = <<>> THEN <<>>
    ELSE LET n == RunLen(Tail(s), CredClass)
         IN  IF /\ Head(s) = "Credential="
                /\ n >= 1
                /\ Len(s) >= n + 2
                /\ s[n + 2] = "/"
             THEN <<"Credential=", "**REDACTED**", "/">>
                      \o ReplaceCred(SubSeq(s, n + 3, Len(s)))
             ELSE <<Head(s)>> \o ReplaceCred(Tail(s))

\* regSign.ReplaceAllString(s, "Signature=**REDACTED**") with
\* regSign = "Signature=([0-9a-f]+)"
RECURSIVE ReplaceSign(_)
ReplaceSign(s) ==
    IF s = <<>> THEN <<>>
    ELSE LET n == RunLen(Tail(s), SignClass)
         IN  IF Head(s) = "Signature=" /\ n >= 1
             THEN <<"Signature=", "**REDACTED**">>
                      \o ReplaceSign(SubSeq(s, n + 2, Len(s)))
             ELSE <<Head(s)>> \o ReplaceSign(Tail(s))

\* strings.TrimSpace
RECURSIVE TrimLeft(_)
TrimLeft(s) == IF s # <<>> /\ Head(s) = " " THEN TrimLeft(Tail(s)) ELSE s
RECURSIVE TrimRight(_)
TrimRight(s) ==
    IF s # <<>> /\ s[Len(s)] = " " THEN TrimRight(SubSeq(s, 1, Len(s) - 1)) ELSE s
TrimSpace(s) == TrimRight(TrimLeft(s))

\* req.Header.Get and req.Header.Set on a header whose values are strings
\* of tokens: Get yields the first value ("" if none), Set leaves one value.
HeaderGet(header, key) == IF header[key] # <<>> THEN header[key][1] ELSE <<>>
HeaderSet(header, key, value) == [header EXCEPT ![key] = <<value>>]

\* httputil.DumpRequestOut(req, false): the request line and every header
\* line, keys in order.
RECURSIVE HeaderLines(_, _)
HeaderLines(key, values) ==
    IF values = <<>> THEN <<>>
    ELSE <<key, ": ">> \o Head(values) \o <<"\r\n">> \o HeaderLines(key, Tail(values))
DumpRequestOut(header) ==
    <<"GET / HTTP/1.1\r\n">>
        \o HeaderLines("Authorization", header["Authorization"])
        \o HeaderLines("X-Amz-Date", header["X-Amz-Date"])
        \o <<"\r\n">>

\* `req.Header.Set("Authorization", origAuth)` after the dump, whether or
\* not the dump failed.
RestoreOnlyAfterDump(header, origAuth, dumpErr) ==
    IF dumpErr = "nil" THEN HeaderSet(header, "Authorization", origAuth) ELSE header
Restore(header, origAuth, dumpErr) == HeaderSet(header, "Authorization", origAuth)

\* The requests the observer is handed: signed with signature v4 (the signer
\* sets a single Authorization value), or with Authorization absent, empty
\* or blank.
TraceKinds == {"v4", "absent", "empty", "blank"}
TraceHeader(kind, key, sig) ==
    [h \in {"Authorization", "X-Amz-Date"} |->
        IF h = "X-Amz-Date" THEN <<(<<"20150524T000000Z">>)>>
        ELSE CASE kind = "v4" -> <<Authorization(key, sig)>>
               [] kind = "absent" -> <<>>
               [] kind = "empty" -> <<(<<>>)>>
               [] kind = "blank" -> <<(<<" ">>)>>]

InitTrace ==
    /\ \E kind \in TraceKinds, key \in AccessKeys, sig \in Signatures :
        tr = [pc |-> "call", kind |-> kind,
              header |-> TraceHeader(kind, key, sig),
              before |-> TraceHeader(kind, key, sig),
              origAuth |-> <<>>, logged |-> <<>>, err |-> "nil"]
    /\ pc = "trace"
    /\ bucketExists = FALSE
    /\ objectExists = FALSE
    /\ lastModified = NoDate
    /\ buf = <<1>>
    /\ server = "conforming"
    /\ err = Nil
    /\ ret = [kind |-> "running", phase |-> "none"]
    /\ req = 0
    /\ res = NoResponse
    /\ trace = <<>>
    /\ cleanups = <<>>
    /\ InitHeap
    /\ pool = PoolIdle
    /\ vf = VfIdle
    /\ tc = TcIdle

\* origAuth is saved; a blank one ends the call, any other is redacted and
\* put in its place.
TraceBegin ==
    /\ tr.pc = "call"
    /\ LET origAuth == HeaderGet(tr.header, "Authorization")
           redactedAuth == ReplaceSign(ReplaceCred(origAuth))
       IN  tr' = IF TrimSpace(origAuth) # <<>>
                 THEN [tr EXCEPT !.pc = "dump", !.origAuth = origAuth,
                          !.header = HeaderSet(@, "Authorization", redactedAuth)]
                 ELSE [tr EXCEPT !.pc = "done", !.origAuth = origAuth]
    /\ UNCHANGED <<imsVars, heapVars, pool, vf, tc>>

\* reqTrace, err = httputil.DumpRequestOut(req, false); logged if err == nil
TraceDump ==
    /\ tr.pc = "dump"
    /\ \/ tr' = [tr EXCEPT !.pc = "restore", !.err = "dump"]
       \/ tr' = [tr EXCEPT !.pc = "restore",
                           !.logged = Append(@, DumpRequestOut(tr.header))]
    /\ UNCHANGED <<imsVars, heapVars, pool, vf, tc>>

\* Replace with real header; return err.
TraceRestore ==
    /\ tr.pc = "restore"
    /\ tr' = [tr EXCEPT !.pc = "done",
                        !.header = Restore(tr.header, tr.origAuth, tr.err)]
    /\ UNCHANGED <<imsVars, heapVars, pool, vf, tc>>

NextTrace ==
    \/ TraceBegin
    \/ TraceDump
    \/ TraceRestore

SpecTrace == InitTrace /\ [][NextTrace]_vars

\* The Authorization value with the access key and the signature replaced.
RedactedAuthorization == Authorization(<<"**REDACTED**">>, <<"**REDACTED**">>)

\* C11: whatever the access key and the signature of a signature-v4
\* Authorization header, the text logged shows **REDACTED** in place of
\* both, so it is the same text for every key and signature.
C11_KeyAndSignatureRedacted ==
    (tr.kind = "v4" /\ tr.logged # <<>>) =>
        tr.logged[1] =
            DumpRequestOut(HeaderSet(tr.before, "Authorization",
                                     RedactedAuthorization))

\* C13: when the call has returned, with or without a dump error, the
\* header is what it was before; the Authorization value differs only
\* while the dump is taken, no other header ever changes, and a request
\* with an absent or blank Authorization is neither modified nor logged.
C13_RequestRestored ==
    /\ tr.pc = "done" => tr.header = tr.before
    /\ tr.header # tr.before => tr.pc \in {"dump", "restore"}
    /\ tr.header["X-Amz-Date"] = tr.before["X-Amz-Date"]
    /\ tr.kind # "v4" => tr.header = tr.before /\ tr.logged = <<>>
    /\ Len(tr.logged) <= 1

\* The dump of a signed request failed and the call has returned.
C13_Witness ==
    /\ tr.pc = "done"
    /\ tr.kind = "v4"
    /\ tr.err = "dump"
    /\ tr.origAuth # ReplaceSign(ReplaceCred(tr.origAuth))

====
